---- MODULE Spec2Model ----
(***************************************************************************)
(* The Garden Report: the pagination / font-fit core of                    *)
(* daily_readings.py (build_newspaper_pdf and calculate_content_size),     *)
(* its main with the content cache, and the same core of                   *)
(* daily_newspaper.py.                                                     *)
(*                                                                         *)
(* A text is the sequence of its Unicode code points, so that the string   *)
(* tests of the classifier (strip, isupper, "-" in, startswith,            *)
(* split('.')[0].isdigit, ord(char) > 0x1F300) are computed on characters. *)
(* Python floats are IEEE-754 doubles: a double is m * 2^e with a 53-bit   *)
(* mantissa m kept as a little-endian sequence of 15-bit limbs, and every  *)
(* float operation rounds to nearest, ties to even, as the interpreter     *)
(* does.                                                                   *)
(***************************************************************************)
EXTENDS Integers, Sequences, FiniteSets, TLC

(***************************************************************************)
(* Natural numbers of any size (limb sequences), for double arithmetic.    *)
(***************************************************************************)
LimbBits == 15
LimbBase == 2^LimbBits
MantBits == 53
DivLimbs == 6

RECURSIVE BTrim(_)
BTrim(b) ==
    IF b = <<>> THEN <<>>
    ELSE IF b[Len(b)] = 0 THEN BTrim(SubSeq(b, 1, Len(b) - 1))
    ELSE b

RECURSIVE BFromInt(_)
BFromInt(n) ==
    IF n = 0 THEN <<>> ELSE <<n % LimbBase>> \o BFromInt(n \div LimbBase)

RECURSIVE BToInt(_)
BToInt(b) ==
    IF b = <<>> THEN 0 ELSE Head(b) + LimbBase * BToInt(Tail(b))

BLimb(b, j) == IF j >= 1 /\ j <= Len(b) THEN b[j] ELSE 0

RECURSIVE BAddC(_, _, _)
BAddC(a, b, c) ==
    IF a = <<>> /\ b = <<>> THEN (IF c = 0 THEN <<>> ELSE <<c>>)
    ELSE LET s == BLimb(a, 1) + BLimb(b, 1) + c
         IN  <<s % LimbBase>>
                 \o BAddC(IF a = <<>> THEN <<>> ELSE Tail(a),
                          IF b = <<>> THEN <<>> ELSE Tail(b),
                          s \div LimbBase)

BAdd(a, b) == BAddC(a, b, 0)

RECURSIVE BMulSmallC(_, _, _)
BMulSmallC(a, k, c) ==
    IF a = <<>> THEN BFromInt(c)
    ELSE LET p == Head(a) * k + c
         IN  <<p % LimbBase>> \o BMulSmallC(Tail(a), k, p \div LimbBase)

BMulSmall(a, k) == IF k = 0 THEN <<>> ELSE BTrim(BMulSmallC(a, k, 0))

BShiftLimbs(b, n) == IF b = <<>> THEN <<>> ELSE [j \in 1..n |-> 0] \o b

RECURSIVE BMul(_, _)
BMul(a, b) ==
    IF b = <<>> THEN <<>>
    ELSE BAdd(BMulSmall(a, Head(b)), BShiftLimbs(BMul(a, Tail(b)), 1))

RECURSIVE IntBitLen(_)
IntBitLen(n) == IF n = 0 THEN 0 ELSE 1 + IntBitLen(n \div 2)

BBitLen(b) ==
    IF b = <<>> THEN 0 ELSE LimbBits * (Len(b) - 1) + IntBitLen(b[Len(b)])

\* floor(b / 2^s)
BShr(b, s) ==
    LET ls == s \div LimbBits
        bs == s % LimbBits
        n  == Len(b) - ls
    IN  IF n <= 0 THEN <<>>
        ELSE BTrim([j \in 1..n |->
                      (BLimb(b, j + ls) \div 2^bs)
                      + (BLimb(b, j + ls + 1) % 2^bs) * 2^(LimbBits - bs)])

\* b * 2^s
BShl(b, s) == BShiftLimbs(BMulSmall(b, 2^(s % LimbBits)), s \div LimbBits)

\* bit i of b (bit 0 is the lowest)
BBit(b, i) == (BLimb(b, (i \div LimbBits) + 1) \div 2^(i % LimbBits)) % 2

\* b mod 2^s # 0
BLowNonzero(b, s) ==
    \/ \E j \in 1..Len(b) : j <= s \div LimbBits /\ b[j] # 0
    \/ BLimb(b, (s \div LimbBits) + 1) % 2^(s % LimbBits) # 0

RECURSIVE BLessAt(_, _, _)
BLessAt(a, b, j) ==
    IF j = 0 THEN FALSE
    ELSE IF a[j] # b[j] THEN a[j] < b[j]
    ELSE BLessAt(a, b, j - 1)

BLess(a, b) ==
    IF Len(a) # Len(b) THEN Len(a) < Len(b) ELSE BLessAt(a, b, Len(a))

\* D (limbs 1..j still to divide, remainder r carried in) divided by d < 2^15
RECURSIVE BDivRem(_, _, _, _)
BDivRem(D, d, j, r) ==
    IF j = 0 THEN [q |-> <<>>, r |-> r]
    ELSE LET cur  == r * LimbBase + D[j]
             rest == BDivRem(D, d, j - 1, cur % d)
         IN  [q |-> Append(rest.q, cur \div d), r |-> rest.r]

(***************************************************************************)
(* IEEE-754 doubles (non-negative, normal range): [m, e] is m * 2^e.       *)
(***************************************************************************)
FZero == [m |-> <<>>, e |-> 0]

\* (M + a fraction that is non-zero iff sticky) * 2^E, rounded to nearest even
FRound(M, E, sticky) ==
    IF M = <<>> THEN FZero
    ELSE LET s == BBitLen(M) - MantBits
         IN  IF s <= 0 THEN [m |-> BShl(M, -s), e |-> E + s]
             ELSE LET q    == BShr(M, s)
                      half == BBit(M, s - 1) = 1
                      rest == sticky \/ BLowNonzero(M, s - 1)
                      up   == half /\ (rest \/ BBit(q, 0) = 1)
                      r    == IF up THEN BAdd(q, <<1>>) ELSE q
                  IN  IF BBitLen(r) > MantBits
                      THEN [m |-> BShr(r, 1), e |-> E + s + 1]
                      ELSE [m |-> r, e |-> E + s]

\* float(n) for an int n >= 0
FFromInt(n) == FRound(BFromInt(n), 0, FALSE)

\* a / b for ints a >= 0, 0 < b < 2^15 (Python true division: correctly rounded)
FDivInt(a, b) ==
    LET D  == BShiftLimbs(BFromInt(a), DivLimbs)
        dr == BDivRem(D, b, Len(D), 0)
    IN  FRound(BTrim(dr.q), -(LimbBits * DivLimbs), dr.r # 0)

\* x * y
FMul(x, y) == FRound(BMul(x.m, y.m), x.e + y.e, FALSE)

\* n * x for an int 0 <= n < 2^15: float(n) is exact, so the product is rounded once
FMulInt(n, x) == FRound(BMulSmall(x.m, n), x.e, FALSE)

\* x < y
FLess(x, y) ==
    IF y.m = <<>> THEN FALSE
    ELSE IF x.m = <<>> THEN TRUE
    ELSE IF x.e # y.e THEN x.e < y.e
    ELSE BLess(x.m, y.m)

\* int(x): truncation
FTrunc(x) ==
    IF x.m = <<>> THEN 0
    ELSE IF x.e >= 0 THEN BToInt(BShl(x.m, x.e))
    ELSE BToInt(BShr(x.m, -x.e))

\* min(a, b) and max(a, b) of Python: the first argument unless the second wins
FMin(a, b) == IF FLess(b, a) THEN b ELSE a
FMax(a, b) == IF FLess(a, b) THEN b ELSE a

\* a - b for a >= b, limb by limb with the borrow c
RECURSIVE BSubC(_, _, _)
BSubC(a, b, c) ==
    IF a = <<>> THEN <<>>
    ELSE LET d == Head(a) - BLimb(b, 1) - c
         IN  <<d % LimbBase>>
                 \o BSubC(Tail(a), IF b = <<>> THEN <<>> ELSE Tail(b),
                          IF d < 0 THEN 1 ELSE 0)

BSub(a, b) == BTrim(BSubC(a, b, 0))

\* (Q * D + R) * 2^i divided by D, for R < D, one bit at a time: quotient and
\* remainder (0 / D needs no step)
RECURSIVE BDivBits(_, _, _, _)
BDivBits(D, i, R, Q) ==
    IF i = 0 \/ (Q = <<>> /\ R = <<>>) THEN [q |-> Q, r |-> R]
    ELSE LET R2 == BTrim(BAddC(R, R, 0))
         IN  IF BLess(R2, D)
             THEN BDivBits(D, i - 1, R2, BTrim(BAddC(Q, Q, 0)))
             ELSE BDivBits(D, i - 1, BSub(R2, D), BTrim(BAddC(Q, Q, 1)))

\* x / y for doubles, y # 0: correctly rounded (the mantissas have 53 bits
\* each, so the first quotient bit is 0 or 1 and DivBits more bits follow)
DivBits == MantBits + 3
FDiv(x, y) ==
    IF x.m = <<>> THEN FZero
    ELSE LET first == ~BLess(x.m, y.m)
             dr == BDivBits(y.m, DivBits,
                            IF first THEN BSub(x.m, y.m) ELSE x.m,
                            IF first THEN <<1>> ELSE <<>>)
         IN  FRound(dr.q, x.e - y.e - DivBits, dr.r # <<>>)

\* x + y
FAdd(x, y) ==
    IF x.m = <<>> THEN y
    ELSE IF y.m = <<>> THEN x
    ELSE LET lo == IF x.e < y.e THEN x.e ELSE y.e
         IN  FRound(BAdd(BShl(x.m, x.e - lo), BShl(y.m, y.e - lo)), lo, FALSE)

\* x - y for x >= y
FSub(x, y) ==
    IF y.m = <<>> THEN x
    ELSE LET lo == IF x.e < y.e THEN x.e ELSE y.e
         IN  FRound(BSub(BShl(x.m, x.e - lo), BShl(y.m, y.e - lo)), lo, FALSE)

(***************************************************************************)
(* Python string operations.  A text is [chars, body]: the code points of  *)
(* its beginning, followed by `body` further lower-case letters "x" (the   *)
(* running text of a long reading, spelled out only by its length).        *)
(***************************************************************************)
Str(cs) == [chars |-> cs, body |-> 0]
LongStr(cs, n) == [chars |-> cs, body |-> n]

StrLen(t) == Len(t.chars) + t.body

IsSpaceChar(c) == c \in {9, 10, 11, 12, 13, 28, 29, 30, 31, 32, 133, 160}
IsUpperChar(c) == c \in (65..90) \cup (192..214) \cup (216..222)
IsLowerChar(c) == c \in (97..122) \cup (223..246) \cup (248..255) \cup {170, 181, 186}
IsDigitChar(c) == c \in (48..57) \cup {178, 179, 185}

RECURSIVE LStrip(_)
LStrip(cs) ==
    IF cs # <<>> /\ IsSpaceChar(Head(cs)) THEN LStrip(Tail(cs)) ELSE cs

RECURSIVE RStrip(_)
RStrip(cs) ==
    IF cs # <<>> /\ IsSpaceChar(cs[Len(cs)])
    THEN RStrip(SubSeq(cs, 1, Len(cs) - 1))
    ELSE cs

\* text.strip()
Strip(t) ==
    IF t.body > 0 THEN [t EXCEPT !.chars = LStrip(t.chars)]
    ELSE [t EXCEPT !.chars = RStrip(LStrip(t.chars))]

\* not text.strip()
IsBlank(t) == StrLen(Strip(t)) = 0

\* (variant for C14: a line counted upper-case as soon as it has a capital)
IsUpperAnyCapital(t) == \E j \in 1..Len(t.chars) : IsUpperChar(t.chars[j])

\* text.isupper(): no lower-case cased character and at least one upper-case
IsUpper(t) ==
    /\ t.body = 0
    /\ \A j \in 1..Len(t.chars) : ~IsLowerChar(t.chars[j])
    /\ \E j \in 1..Len(t.chars) : IsUpperChar(t.chars[j])

\* c in text (c is not the letter "x")
Contains(t, c) == \E j \in 1..Len(t.chars) : t.chars[j] = c

\* text.startswith(prefix) (prefix holds no letter "x")
StartsWith(t, prefix) ==
    /\ Len(prefix) <= Len(t.chars)
    /\ SubSeq(t.chars, 1, Len(prefix)) = prefix

\* text.split('.')[0]
BeforeFirstDot(t) ==
    IF Contains(t, 46)
    THEN LET d == CHOOSE j \in 1..Len(t.chars) :
                      /\ t.chars[j] = 46
                      /\ \A h \in 1..(j - 1) : t.chars[h] # 46
         IN  Str(SubSeq(t.chars, 1, d - 1))
    ELSE t

\* text.isdigit()
IsDigit(t) ==
    /\ t.body = 0
    /\ t.chars # <<>>
    /\ \A j \in 1..Len(t.chars) : IsDigitChar(t.chars[j])

\* any(ord(char) > 0x1F300 for char in text)
EmojiThreshold == 127744
HasEmoji(t) == \E j \in 1..Len(t.chars) : t.chars[j] > EmojiThreshold

\* (variant for C29: a quote-section title with a hyphen, "CITATION - DU JOUR")
CITATION_WITH_HYPHEN ==
    Str(<<67, 73, 84, 65, 84, 73, 79, 78, 32, 45, 32, 68, 85, 32, 74, 79, 85, 82>>)

\* "CITATION DU JOUR"
CITATION_DU_JOUR == Str(<<67, 73, 84, 65, 84, 73, 79, 78, 32, 68, 85, 32, 74, 79, 85, 82>>)
HYPHEN == 45
\* the opening-quote glyphs U+275D and U+00AB, the em dash U+2014 and "-"
QuoteGlyphs == {<<10077>>, <<171>>}
DashGlyphs == {<<8212>>, <<45>>}

(***************************************************************************)
(* The style registry of build_newspaper_pdf (style_definitions).  An      *)
(* attribute a style does not set is the one of its sample-sheet parent,   *)
(* which is 0 for the spacing, indent and padding attributes here.         *)
(***************************************************************************)
StyleRec(fs, ld, al, sb, sa, fli, bp, li, ri) ==
    [fontSize |-> fs, leading |-> ld, alignment |-> al, spaceBefore |-> sb,
     spaceAfter |-> sa, firstLineIndent |-> fli, borderPadding |-> bp,
     leftIndent |-> li, rightIndent |-> ri]

\* insertion order of the dict, which is the order the rescale loop visits
StyleOrder ==
    <<"masthead_style", "subtitle_style", "section_header_style",
      "article_title_style", "article_style", "article_style_small",
      "quote_section_style", "quote_style", "attribution_style", "emoji_style">>

StyleNames == {StyleOrder[j] : j \in 1..Len(StyleOrder)}

InitialStyles ==
    [n \in StyleNames |->
       CASE n = "masthead_style"       -> StyleRec(32, 36, 1, 0, 6, 0, 0, 0, 0)
         [] n = "subtitle_style"       -> StyleRec(12, 14, 1, 0, 20, 0, 0, 0, 0)
         [] n = "section_header_style" -> StyleRec(16, 20, 0, 20, 12, 0, 5, 0, 0)
         [] n = "article_title_style"  -> StyleRec(12, 14, 0, 12, 8, 0, 0, 10, 10)
         [] n = "article_style"        -> StyleRec(12, 14, 4, 0, 8, 15, 0, 0, 0)
         [] n = "article_style_small"  -> StyleRec(10, 10, 4, 0, 8, 15, 0, 0, 0)
         [] n = "quote_section_style"  -> StyleRec(18, 22, 1, 20, 12, 0, 5, 0, 0)
         [] n = "quote_style"          -> StyleRec(14, 18, 1, 0, 10, 0, 0, 30, 30)
         [] n = "attribution_style"    -> StyleRec(12, 14, 1, 0, 20, 0, 0, 0, 0)
         [] n = "emoji_style"          -> StyleRec(12, 14, 0, 0, 0, 0, 0, 0, 0)]

\* the registry of daily_newspaper.py: no small article style, a larger section
\* header and article title, a tighter article leading
NewspaperStyleOrder ==
    <<"masthead_style", "subtitle_style", "section_header_style",
      "article_title_style", "article_style", "quote_section_style",
      "quote_style", "attribution_style", "emoji_style">>

NewspaperStyleNames == {NewspaperStyleOrder[j] : j \in 1..Len(NewspaperStyleOrder)}

NewspaperStyles ==
    [n \in NewspaperStyleNames |->
       CASE n = "masthead_style"       -> StyleRec(32, 36, 1, 0, 6, 0, 0, 0, 0)
         [] n = "subtitle_style"       -> StyleRec(12, 14, 1, 0, 20, 0, 0, 0, 0)
         [] n = "section_header_style" -> StyleRec(18, 22, 0, 20, 12, 0, 5, 0, 0)
         [] n = "article_title_style"  -> StyleRec(16, 16, 0, 12, 8, 0, 0, 10, 10)
         [] n = "article_style"        -> StyleRec(12, 11, 4, 0, 8, 15, 0, 0, 0)
         [] n = "quote_section_style"  -> StyleRec(18, 22, 1, 20, 12, 0, 5, 0, 0)
         [] n = "quote_style"          -> StyleRec(14, 18, 1, 0, 10, 0, 0, 30, 30)
         [] n = "attribution_style"    -> StyleRec(12, 14, 1, 0, 20, 0, 0, 0, 0)
         [] n = "emoji_style"          -> StyleRec(12, 14, 0, 0, 0, 0, 0, 0, 0)]

\* the two programs modelled
Variants == {"daily_readings", "daily_newspaper"}
StyleOrderOf(v) == IF v = "daily_newspaper" THEN NewspaperStyleOrder ELSE StyleOrder
InitialStylesOf(v) == IF v = "daily_newspaper" THEN NewspaperStyles ELSE InitialStyles

\* (variant for C11: the hint ignored)
StyleGetDefault(styles, style_name) == "article_style"

\* (variant for C12: the registry subscripted with the hint, no default)
StyleGetStrict(styles, style_name) == style_name

\* styles.get(style_name, styles["article_style"]): the registry key of the result
StyleGet(styles, style_name) ==
    IF style_name \in DOMAIN styles THEN style_name ELSE "article_style"

(***************************************************************************)
(* The page geometry of build_newspaper_pdf, in points, computed in        *)
(* doubles as the code computes it from the units of reportlab.lib.units   *)
(* (inch = 72.0, cm = inch / 2.54, mm = cm * 0.1) and A4 = (210 mm, 297 mm).*)
(***************************************************************************)
inch == FFromInt(72)
cm == FDiv(inch, FDivInt(254, 100))
mm == FMul(cm, FDivInt(1, 10))
page_width == FMulInt(210, mm)
page_height == FMulInt(297, mm)

\* margin = 0.5 * cm, footer_height = 1 * cm, gutter = 0.5 * cm
margin == FMul(FDivInt(1, 2), cm)
footer_height == FMulInt(1, cm)
gutter == FMul(FDivInt(1, 2), cm)

\* (variant for C16: the gutters not taken off the page width)
WidthWithinMargins == FSub(page_width, FMulInt(2, margin))
ColumnWidthWithoutGutters == FDiv(WidthWithinMargins, FFromInt(3))

\* column_width = (page_width - 2 * margin - 2 * gutter) / 3
WidthOfColumns ==
    FSub(FSub(page_width, FMulInt(2, margin)), FMulInt(2, gutter))
column_width == FDiv(WidthOfColumns, FFromInt(3))

\* the margins the document is given
leftMargin == margin
topMargin == margin
bottomMargin == FAdd(margin, footer_height)

\* the three frames of a page: Frame(x, y, width, height) for i in range(3)
NumColumns == 3
ColumnPitch == FAdd(column_width, gutter)
frame_height == FSub(FSub(page_height, topMargin), bottomMargin)
content_frames ==
    [j \in 1..NumColumns |->
       [x      |-> FAdd(leftMargin, FMulInt(j - 1, ColumnPitch)),
        y      |-> bottomMargin,
        width  |-> column_width,
        height |-> frame_height]]

\* the geometry as build_newspaper_pdf holds it
Geometry ==
    [page_width |-> page_width, margin |-> margin, gutter |-> gutter,
     column_width |-> column_width, content_frames |-> content_frames]

(***************************************************************************)
(* Flowables and the page flow of BaseDocTemplate.build: blocks fill the   *)
(* three column frames of a page top to bottom, a paragraph that does not  *)
(* fit is split at a line and continues in the next frame, and each page   *)
(* begun is counted by handle_pageBegin.  Line breaking is that of a       *)
(* monospaced face (Courier, 0.6 em per character), by characters.         *)
(***************************************************************************)
Paragraph(text, style) == [kind |-> "Paragraph", text |-> text, style |-> style]
Spacer == [kind |-> "Spacer", text |-> Str(<<>>), style |-> ""]

Max(a, b) == IF a > b THEN a ELSE b

\* int(frame_height) and int(column_width): a frame in whole points
FrameHeight == 785
ColumnWidth == 179

CharsPerLine(st) ==
    Max(1, (10 * (ColumnWidth - st.leftIndent - st.rightIndent)) \div (6 * st.fontSize))

NumLines(text, st) ==
    Max(1, (StrLen(text) + CharsPerLine(st) - 1) \div CharsPerLine(st))

PageStart == [page |-> 1, frame |-> 0, used |-> 0]

\* handle_frameEnd: the next frame of the page, or the first frame of a new page
NextFrame(cur) ==
    IF cur.frame + 1 < NumColumns
    THEN [page |-> cur.page, frame |-> cur.frame + 1, used |-> 0]
    ELSE [page |-> cur.page + 1, frame |-> 0, used |-> 0]

\* n lines of height lead, with space sb before (not at the top of a frame) and sa after
RECURSIVE PlaceLines(_, _, _, _, _)
PlaceLines(cur, sb, n, lead, sa) ==
    LET s     == IF cur.used = 0 THEN 0 ELSE sb
        avail == FrameHeight - cur.used - s
        fit   == IF avail < lead THEN 0 ELSE avail \div lead
    IN  IF n * lead <= avail \/ (fit = 0 /\ cur.used = 0)
        THEN [cur EXCEPT !.used = @ + s + n * lead + sa]
        ELSE PlaceLines(NextFrame(cur), sb, n - fit, lead, sa)

PlaceFlowable(cur, f, styles) ==
    IF f.kind = "Spacer" THEN PlaceLines(cur, 0, 1, 1, 0)
    ELSE LET st == styles[f.style]
         IN  PlaceLines(cur, st.spaceBefore, NumLines(f.text, st), st.leading,
                        st.spaceAfter)

RECURSIVE FlowFrom(_, _, _, _)
FlowFrom(fl, styles, j, cur) ==
    IF j > Len(fl) THEN cur
    ELSE FlowFrom(fl, styles, j + 1, PlaceFlowable(cur, fl[j], styles))

\* doc.build(flowables): the number of pages begun; the pending first page is
\* begun by the first flowable handled, so no flowable means no page
BuildPages(fl, styles) ==
    IF fl = <<>> THEN 0 ELSE FlowFrom(fl, styles, 1, PageStart).page

\* the frames of a page template nothing has been built on: the first frame, empty
FreshFrames == [frame |-> 0, used |-> 0]

\* (variant for C23: frames that keep the fill of the build before)
FramesNotReset(frames) == [page |-> 1, frame |-> frames.frame, used |-> frames.used]

\* doc_test.addPageTemplates(doc.pageTemplates): the test document and the
\* final document flow through the same Frame objects; a build begins its first
\* page by resetting every frame of the template, whatever was left in them
PageBeginFrames(frames) == PageStart

\* the frames as a build of fl leaves them
FramesAfter(frames, fl, styles) ==
    IF fl = <<>> THEN frames
    ELSE LET cur == FlowFrom(fl, styles, 1, PageBeginFrames(frames))
         IN  [frame |-> cur.frame, used |-> cur.used]

\* the pages a build of fl begins on frames left in the given state
BuildPagesOn(frames, fl, styles) ==
    IF fl = <<>> THEN 0 ELSE FlowFrom(fl, styles, 1, PageBeginFrames(frames)).page

\* (variant for C1: the trailing spacer forgotten)
WithoutSpacer(fl) == fl

\* "Add a spacer at the end": flowables.append(Spacer(1, 1))
WithSpacer(fl) == Append(fl, Spacer)

(***************************************************************************)
(* Content items: a plain string, or a (style_name, text) tuple.           *)
(***************************************************************************)
Plain(t) == [tuple |-> FALSE, style_name |-> "", text |-> t]
Hinted(name, t) == [tuple |-> TRUE, style_name |-> name, text |-> t]

\* current_section = None
None == <<>>

\* what one iteration of a classifier loop does: the blocks it appends, the
\* section state it leaves, and whether it raises instead
Skip(section) == [out |-> <<>>, section |-> section, raised |-> FALSE]
\* an exception leaves the loop: AttributeError of item.strip() on a value that
\* is no string, KeyError of styles[name] on a name that is no registry key
Raise(section) == [out |-> <<>>, section |-> section, raised |-> TRUE]
\* flowables.append(Paragraph(text, styles[style]))
Emit(styles, text, style, section) ==
    IF style \in DOMAIN styles
    THEN [out |-> <<Paragraph(text, style)>>, section |-> section,
          raised |-> FALSE]
    ELSE Raise(section)

\* the body of the loop of calculate_content_size for one content item
SizeItem(item, styles, current_section) ==
    IF item.tuple
    THEN IF IsBlank(item.text) THEN Skip(current_section)
         ELSE Emit(styles, item.text, StyleGet(styles, item.style_name), current_section)
    ELSE LET text == item.text
             has_emoji == HasEmoji(text)
             style_to_use == IF has_emoji THEN "emoji_style" ELSE "article_style"
         IN  IF IsBlank(text) THEN Skip(current_section)
             ELSE IF IsUpper(text) /\ Contains(text, HYPHEN)
             THEN IF text = CITATION_DU_JOUR
                  THEN Emit(styles, text, "quote_section_style", <<text>>)
                  ELSE Emit(styles, text, "section_header_style", <<text>>)
             ELSE IF current_section = <<CITATION_DU_JOUR>>
             THEN IF \E g \in QuoteGlyphs : StartsWith(text, g)
                  THEN Emit(styles, text, "quote_style", current_section)
                  ELSE IF \E g \in DashGlyphs : StartsWith(text, g)
                  THEN Emit(styles, text, "attribution_style", current_section)
                  ELSE Skip(current_section)
             ELSE IF IsDigit(BeforeFirstDot(Strip(text)))
             THEN Emit(styles, text, "article_style_small", current_section)
             ELSE Emit(styles, text, style_to_use, current_section)

\* (variant for C24: the numeric-prefix test made before the header test)
RenderedItemNumberedFirst(item, styles, current_section) ==
    IF item.tuple
    THEN IF IsBlank(item.text) THEN Skip(current_section)
         ELSE Emit(styles, item.text, StyleGet(styles, item.style_name), current_section)
    ELSE LET text == item.text
             has_emoji == HasEmoji(text)
             style_to_use == IF has_emoji THEN "emoji_style" ELSE "article_style"
         IN  IF IsBlank(text) THEN Skip(current_section)
             ELSE IF IsDigit(BeforeFirstDot(Strip(text)))
             THEN Emit(styles, text, "article_style", current_section)
             ELSE IF IsUpper(text) /\ Contains(text, HYPHEN)
             THEN IF text = CITATION_DU_JOUR
                  THEN Emit(styles, text, "quote_section_style", <<text>>)
                  ELSE Emit(styles, text, "section_header_style", <<text>>)
             ELSE IF current_section = <<CITATION_DU_JOUR>>
             THEN IF \E g \in QuoteGlyphs : StartsWith(text, g)
                  THEN Emit(styles, text, "quote_style", current_section)
                  ELSE IF \E g \in DashGlyphs : StartsWith(text, g)
                  THEN Emit(styles, text, "attribution_style", current_section)
                  ELSE Skip(current_section)
             ELSE Emit(styles, text, style_to_use, current_section)

\* the body of the render loop of build_newspaper_pdf for one content item
RenderedItem(item, styles, current_section) ==
    IF item.tuple
    THEN IF IsBlank(item.text) THEN Skip(current_section)
         ELSE Emit(styles, item.text, StyleGet(styles, item.style_name), current_section)
    ELSE LET text == item.text
             has_emoji == HasEmoji(text)
             style_to_use == IF has_emoji THEN "emoji_style" ELSE "article_style"
         IN  IF IsBlank(text) THEN Skip(current_section)
             ELSE IF IsUpper(text) /\ Contains(text, HYPHEN)
             THEN IF text = CITATION_DU_JOUR
                  THEN Emit(styles, text, "quote_section_style", <<text>>)
                  ELSE Emit(styles, text, "section_header_style", <<text>>)
             ELSE IF current_section = <<CITATION_DU_JOUR>>
             THEN IF \E g \in QuoteGlyphs : StartsWith(text, g)
                  THEN Emit(styles, text, "quote_style", current_section)
                  ELSE IF \E g \in DashGlyphs : StartsWith(text, g)
                  THEN Emit(styles, text, "attribution_style", current_section)
                  ELSE Skip(current_section)
             ELSE IF IsDigit(BeforeFirstDot(Strip(text)))
             THEN Emit(styles, text, "article_style", current_section)
             ELSE Emit(styles, text, style_to_use, current_section)

\* daily_newspaper.py: the body of the loop of calculate_content_size (every
\* item is taken for a string)
NewspaperSizeItem(item, styles, current_section) ==
    IF item.tuple THEN Raise(current_section)     \* a tuple has no strip()
    ELSE LET text == item.text
             has_emoji == HasEmoji(text)
             style_to_use == IF has_emoji THEN "emoji_style" ELSE "article_style"
         IN  IF IsBlank(text) THEN Skip(current_section)
             ELSE IF IsUpper(text) /\ Contains(text, HYPHEN)
             THEN IF text = CITATION_DU_JOUR
                  THEN Emit(styles, text, "quote_section_style", <<text>>)
                  ELSE Emit(styles, text, "section_header_style", <<text>>)
             ELSE IF current_section = <<CITATION_DU_JOUR>>
             THEN IF \E g \in QuoteGlyphs : StartsWith(text, g)
                  THEN Emit(styles, text, "quote_style", current_section)
                  ELSE IF \E g \in DashGlyphs : StartsWith(text, g)
                  THEN Emit(styles, text, "attribution_style", current_section)
                  ELSE Skip(current_section)
             ELSE IF IsDigit(BeforeFirstDot(Strip(text)))
             THEN Emit(styles, text, "article_title_style", current_section)
             ELSE Emit(styles, text, style_to_use, current_section)

\* daily_newspaper.py: the body of the render loop of build_newspaper_pdf; the
\* numbered branch subscripts the registry with a key it does not hold
NewspaperRenderedItem(item, styles, current_section) ==
    IF item.tuple THEN Raise(current_section)     \* a tuple has no strip()
    ELSE LET text == item.text
             has_emoji == HasEmoji(text)
             style_to_use == IF has_emoji THEN "emoji_style" ELSE "article_style"
         IN  IF IsBlank(text) THEN Skip(current_section)
             ELSE IF IsUpper(text) /\ Contains(text, HYPHEN)
             THEN IF text = CITATION_DU_JOUR
                  THEN Emit(styles, text, "quote_section_style", <<text>>)
                  ELSE Emit(styles, text, "section_header_style", <<text>>)
             ELSE IF current_section = <<CITATION_DU_JOUR>>
             THEN IF \E g \in QuoteGlyphs : StartsWith(text, g)
                  THEN Emit(styles, text, "quote_style", current_section)
                  ELSE IF \E g \in DashGlyphs : StartsWith(text, g)
                  THEN Emit(styles, text, "attribution_style", current_section)
                  ELSE Skip(current_section)
             ELSE IF IsDigit(BeforeFirstDot(Strip(text)))
             THEN Emit(styles, text, "article_style_small", current_section)
             ELSE Emit(styles, text, style_to_use, current_section)

\* the two classifier loops of a program
MeasureClassify(v, item, styles, current_section) ==
    IF v = "daily_newspaper"
    THEN NewspaperSizeItem(item, styles, current_section)
    ELSE SizeItem(item, styles, current_section)
RenderClassify(v, item, styles, current_section) ==
    IF v = "daily_newspaper"
    THEN NewspaperRenderedItem(item, styles, current_section)
    ELSE RenderedItem(item, styles, current_section)

(***************************************************************************)
(* The content the model runs on: every sequence of at most MaxLen items   *)
(* of ItemPool, and every target page count up to MaxTarget.               *)
(***************************************************************************)
MaxLen == 2
MaxTarget == 3

\* running text of a long reading: "In " and 13000 more letters
ReadingLength == 13000

BlankLine == Plain(Str(<<32>>))                                \* " "
CitationLine == Plain(CITATION_DU_JOUR)
\* "DAILY WEATHER - TODAY"
WeatherHeader ==
    Plain(Str(<<68, 65, 73, 76, 89, 32, 87, 69, 65, 84, 72, 69, 82, 32, 45, 32,
                84, 79, 68, 65, 89>>))
\* "72(degree sign)F - Clear sky"
ClearSky ==
    Plain(Str(<<55, 50, 176, 70, 32, 45, 32, 67, 108, 101, 97, 114, 32, 115,
                107, 121>>))
\* "(left guillemet) La vie est belle (right guillemet)"
LaVieEstBelle ==
    Plain(Str(<<171, 32, 76, 97, 32, 118, 105, 101, 32, 101, 115, 116, 32, 98,
                101, 108, 108, 101, 32, 187>>))
\* "(em dash) Author Name"
AuthorName ==
    Plain(Str(<<8212, 32, 65, 117, 116, 104, 111, 114, 32, 78, 97, 109, 101>>))
\* "1. Annunciation"
AnnunciationText ==
    Str(<<49, 46, 32, 65, 110, 110, 117, 110, 99, 105, 97, 116, 105, 111, 110>>)
Annunciation == Plain(AnnunciationText)
\* "(sunrise emoji U+1F305) 06:12 AM"
Sunrise == Plain(Str(<<127749, 32, 48, 54, 58, 49, 50, 32, 65, 77>>))
\* "1. (sunrise emoji)"
NumberedEmoji == Plain(Str(<<49, 46, 32, 127749>>))
\* "(sunrise emoji) A-B"
EmojiHeader == Plain(Str(<<127749, 32, 65, 45, 66>>))
\* ("article_style_small", "1. Annunciation"), as main builds the rosary
RosaryPrayer == Hinted("article_style_small", AnnunciationText)
\* ("no_such_style", "Random other text")
UnknownHint ==
    Hinted("no_such_style",
           Str(<<82, 97, 110, 100, 111, 109, 32, 111, 116, 104, 101, 114, 32,
                 116, 101, 120, 116>>))
\* ("article_title_style", "")
BlankTitle == Hinted("article_title_style", Str(<<>>))
\* a long reading
LongReading == Plain(LongStr(<<73, 110, 32>>, ReadingLength))

\* "1. A-B": a numeric prefix on an upper-case text with a hyphen
NumberedHeaderText == Str(<<49, 46, 32, 65, 45, 66>>)
NumberedHeader == Plain(NumberedHeaderText)
\* a reading of one paragraph that comes to the last lines of a page
FullPageLength == 4000
FullPageReading == Plain(LongStr(<<73, 110, 32>>, FullPageLength))

ItemPool ==
    {BlankLine, CitationLine, WeatherHeader, ClearSky, LaVieEstBelle,
     AuthorName, Annunciation, Sunrise, NumberedEmoji, EmojiHeader,
     RosaryPrayer, UnknownHint, BlankTitle, LongReading}

Contents == UNION {[1..n -> ItemPool] : n \in 0..MaxLen}

\* the items that differ in what the solver sees of them: nothing, a short
\* block, a block under a hint, a text of several pages
SolverPool == {BlankLine, WeatherHeader, RosaryPrayer, LongReading}

SolverContents == UNION {[1..n -> SolverPool] : n \in 0..MaxLen}

\* lines of text for the rule chain of the classifier
RulesPool ==
    {BlankLine, CitationLine, WeatherHeader, ClearSky, LaVieEstBelle,
     AuthorName, Annunciation, NumberedHeader}

RulesContents == UNION {[1..n -> RulesPool] : n \in 0..MaxLen}

\* contents of one paragraph or two for the solver
ScaleContents ==
    {<<>>, <<FullPageReading>>, <<LongReading>>, <<LongReading, LongReading>>}

\* the target page counts the solver is tried with
MaxScaleTarget == 8

\* daily_newspaper.py: every item is a line of text
NewspaperPool == {BlankLine, WeatherHeader, ClearSky, Annunciation, LongReading}

NewspaperContents == UNION {[1..n -> NewspaperPool] : n \in 0..MaxLen}

(***************************************************************************)
(* One invocation of build_newspaper_pdf(pdf_filename, story_content,      *)
(* target_pages).                                                          *)
(***************************************************************************)
VARIABLES
    pc,                \* where the invocation is
    layout,            \* the page geometry build_newspaper_pdf computes
    variant,           \* which program runs
    story_content,     \* the ordered content items
    target_pages,
    style_definitions, \* the registry; the rescale pass mutates it in place
    pos,               \* index of the next content item of the running loop
    current_section,   \* section state of the running traversal
    size_flowables,    \* flowables of calculate_content_size
    num_pages,         \* its result (0: not measured yet)
    scale_factor,      \* <<>> while unassigned, else <<the double>>
    base_font_size,
    base_leading,
    style_idx,         \* position of the rescale loop in the registry order
    flowables,         \* flowables of the render pass
    current_page,      \* doc.current_page: pages begun by the final doc.build
    canvas_page,       \* canvas._current_page of the final build (0: no canvas)
    footers,           \* the page indicators the footer has drawn, in order
    pdf_file,          \* the file pdf_filename: "absent" or "complete"
    use_cache,         \* main's argument
    cache,             \* the file cache/news_cache.pkl
    fetched,           \* whether main has called the fetchers
    run,               \* how many times main has been started today
    cache_writes,      \* how many times save_to_cache has written today
    size_test_pdf,     \* the file "size_test.pdf": "absent" or "complete"
    shared_frames      \* the frames of the page template, as the last build left them

vars == <<pc, layout, variant, story_content, target_pages, style_definitions, pos,
          current_section, size_flowables, num_pages, scale_factor,
          base_font_size, base_leading, style_idx, flowables, current_page,
          canvas_page, footers, pdf_file, use_cache, cache, fetched, run,
          cache_writes, size_test_pdf, shared_frames>>

\* the cache file: none, one that does not unpickle to {'timestamp', 'content'},
\* or an entry saved on some day
NoCacheFile == [kind |-> "none", day |-> 0, content |-> <<>>]
MalformedCache == [kind |-> "malformed", day |-> 0, content |-> <<>>]
CacheEntry(d, c) == [kind |-> "entry", day |-> d, content |-> c]

\* datetime.datetime.now().date(), the days counted from some day 0
Today == 2

\* what the fetchers of main can assemble: nothing (both fail), the rosary
\* alone, the rosary and a reading under its title
FetchedContents ==
    {<<>>,
     <<RosaryPrayer, BlankLine>>,
     <<RosaryPrayer, BlankLine, BlankTitle, BlankLine, LongReading, BlankLine>>}

\* what an earlier run has left in the cache, on the day before or today
CachedContents == {<<>>, <<RosaryPrayer, BlankLine>>}
CacheFiles ==
    {NoCacheFile, MalformedCache}
        \cup {CacheEntry(d, c) : d \in {Today - 1, Today}, c \in CachedContents}

\* (variant for C19: a document template that creates its file when made)
FileCreatedEarly == "partial"

\* BaseDocTemplate(pdf_filename, ...) opens no file: nothing is written before
\* the canvas is saved at the end of doc.build
DocTemplateFile == "absent"

\* the state build_newspaper_pdf(pdf_filename, story_content, target_pages)
\* starts from, the registry just created
BuildStart(v) ==
    /\ layout = Geometry
    /\ variant = v
    /\ style_definitions = InitialStylesOf(v)
    /\ pos = 1
    /\ current_section = None
    /\ size_flowables = <<>>
    /\ num_pages = 0
    /\ scale_factor = <<>>
    /\ base_font_size = 0
    /\ base_leading = 0
    /\ style_idx = 0
    /\ flowables = <<>>
    /\ current_page = 0
    /\ canvas_page = 0
    /\ footers = <<>>
    /\ pdf_file = DocTemplateFile
    /\ fetched = FALSE
    /\ shared_frames = FreshFrames

Start(contents, v) ==
    /\ pc = "measure"
    /\ story_content \in contents
    /\ target_pages \in 1..MaxTarget
    /\ use_cache = FALSE
    /\ cache = NoCacheFile
    /\ run = 1
    /\ cache_writes = 0
    /\ size_test_pdf = "absent"
    /\ BuildStart(v)

Init == Start(Contents, "daily_readings")
InitSolver == Start(SolverContents, "daily_readings")
InitNewspaper == Start(NewspaperContents, "daily_newspaper")
InitRules == Start(RulesContents, "daily_readings")
\* the solver on few contents and many target page counts
InitScale ==
    /\ pc = "measure"
    /\ story_content \in ScaleContents
    /\ target_pages \in 1..MaxScaleTarget
    /\ use_cache = FALSE
    /\ cache = NoCacheFile
    /\ run = 1
    /\ cache_writes = 0
    /\ size_test_pdf = "absent"
    /\ BuildStart("daily_readings")

\* main(use_cache, target_pages=...) of daily_readings.py, before its first line
InitMain ==
    /\ pc = "main"
    /\ story_content = <<>>
    /\ target_pages \in 1..MaxTarget
    /\ use_cache \in BOOLEAN
    /\ cache \in CacheFiles
    /\ run = 1
    /\ cache_writes = IF cache.kind = "entry" /\ cache.day = Today THEN 1 ELSE 0
    /\ size_test_pdf = "absent"
    /\ BuildStart("daily_readings")

\* (variant for C20: the entry's date not looked at)
load_from_cache_any_day(c) ==
    IF c.kind = "entry" THEN <<c.content>> ELSE <<>>

\* load_from_cache(): <<the content>>, or <<>> for None
load_from_cache(c) ==
    IF c.kind = "none" THEN <<>>                 \* not cache_path.exists()
    ELSE IF c.kind = "malformed" THEN <<>>       \* except Exception: warn
    ELSE IF c.day = Today THEN <<c.content>>     \* cache_date == today
    ELSE <<>>

\* save_to_cache(content): the file is written anew with today's timestamp
save_to_cache(content) == CacheEntry(Today, content)

\* main up to "if content is None": the cache is consulted only with use_cache
MainLoadCache ==
    /\ pc = "main"
    /\ LET content == IF use_cache THEN load_from_cache(cache) ELSE <<>>
       IN  IF content # <<>>
           THEN /\ story_content' = content[1]
                /\ pc' = "measure"
           ELSE /\ story_content' = story_content
                /\ pc' = "fetch"
    /\ UNCHANGED <<layout, variant, target_pages, style_definitions, pos,
                   current_section, size_flowables, num_pages, scale_factor,
                   base_font_size, base_leading, style_idx, flowables,
                   current_page, canvas_page, footers, pdf_file, use_cache,
                   cache, fetched,
                   run, cache_writes, size_test_pdf, shared_frames>>

\* main: the content is fetched and assembled, then saved to the cache
MainFetch ==
    /\ pc = "fetch"
    /\ \E content \in FetchedContents :
          /\ story_content' = content
          /\ cache' = save_to_cache(content)
    /\ cache_writes' = cache_writes + 1
    /\ fetched' = TRUE
    /\ pc' = "measure"
    /\ UNCHANGED <<layout, variant, target_pages, style_definitions, pos,
                   current_section, size_flowables, num_pages, scale_factor,
                   base_font_size, base_leading, style_idx, flowables,
                   current_page, canvas_page, footers, pdf_file, use_cache,
                   run, size_test_pdf, shared_frames>>

\* calculate_content_size: one iteration of "for text in content"; an
\* exception of the iteration ends the invocation
MeasureItem ==
    /\ pc = "measure"
    /\ pos <= Len(story_content)
    /\ LET r == MeasureClassify(variant, story_content[pos], style_definitions,
                                current_section)
       IN  /\ size_flowables' = size_flowables \o r.out
           /\ current_section' = r.section
           /\ pos' = IF r.raised THEN pos ELSE pos + 1
           /\ pc' = IF r.raised THEN "error" ELSE pc
    /\ UNCHANGED <<layout, variant, story_content, target_pages, style_definitions,
                   num_pages, scale_factor, base_font_size, base_leading,
                   style_idx, flowables, current_page, canvas_page, footers,
                   pdf_file, use_cache, cache, fetched,
                   run, cache_writes, size_test_pdf, shared_frames>>

\* the flowables calculate_content_size makes of content[j..], the section
\* state being section; <<>> stands for a pass ended by an exception
RECURSIVE SizeFlowables(_, _, _, _, _, _)
SizeFlowables(v, content, styles, j, section, acc) ==
    IF j > Len(content) THEN WithSpacer(acc)
    ELSE LET r == MeasureClassify(v, content[j], styles, section)
         IN  IF r.raised THEN <<>>
             ELSE SizeFlowables(v, content, styles, j + 1, r.section, acc \o r.out)

\* calculate_content_size(doc, content, styles) as a function of its arguments
\* and of the state of the frames of doc.pageTemplates
calculate_content_size(v, frames, content, styles) ==
    BuildPagesOn(frames, SizeFlowables(v, content, styles, 1, None, <<>>), styles)

\* SizeDocTemplate: super().__init__("size_test.pdf", pagesize=A4); the build
\* of the test document saves its canvas to that file
SizeTestFile == "complete"

\* calculate_content_size: the spacer, doc_test.build and the returned
\* page_count (the pages of the test document go to size_test.pdf)
MeasureBuild ==
    /\ pc = "measure"
    /\ pos > Len(story_content)
    /\ size_flowables' = WithSpacer(size_flowables)
    /\ num_pages' = BuildPagesOn(shared_frames, size_flowables', style_definitions)
    /\ shared_frames' = FramesAfter(shared_frames, size_flowables', style_definitions)
    /\ size_test_pdf' = SizeTestFile
    /\ pc' = "solve"
    /\ UNCHANGED <<layout, variant, story_content, target_pages, style_definitions,
                   pos, current_section, scale_factor, base_font_size,
                   base_leading, style_idx, flowables, current_page,
                   canvas_page, footers, pdf_file, use_cache, cache, fetched,
                   run, cache_writes>>

\* (variant for C3: the comparison dropped, the rescale pass always run)
AlwaysRescale(n, t) == TRUE

\* if num_pages != target_pages
NeedsRescale(n, t) == n # t

\* max(0.7, min(1.3, scale_factor))
ScaleMin == FDivInt(7, 10)
ScaleMax == FDivInt(13, 10)
\* (variant for C2: the clamp forgotten)
Unclamped(sf) == sf

ClampScale(sf) == FMax(ScaleMin, FMin(ScaleMax, sf))

SolveSkip ==
    /\ pc = "solve"
    /\ ~NeedsRescale(num_pages, target_pages)
    /\ pc' = "masthead"
    /\ UNCHANGED <<layout, variant, story_content, target_pages, style_definitions,
                   pos, current_section, size_flowables, num_pages,
                   scale_factor, base_font_size, base_leading, style_idx,
                   flowables, current_page, canvas_page, footers, pdf_file,
                   use_cache, cache, fetched,
                   run, cache_writes, size_test_pdf, shared_frames>>

\* scale_factor and the base sizes, read before the loop over the styles
SolveRescale ==
    /\ pc = "solve"
    /\ NeedsRescale(num_pages, target_pages)
    /\ num_pages # 0          \* target_pages / 0 raises ZeroDivisionError
    /\ scale_factor' = <<ClampScale(FDivInt(target_pages, num_pages))>>
    /\ base_font_size' = style_definitions["article_style"].fontSize
    /\ base_leading' = style_definitions["article_style"].leading
    /\ style_idx' = 1
    /\ pc' = "rescale"
    /\ UNCHANGED <<layout, variant, story_content, target_pages, style_definitions,
                   pos, current_section, size_flowables, num_pages, flowables,
                   current_page, canvas_page, footers, pdf_file, use_cache,
                   cache, fetched,
                   run, cache_writes, size_test_pdf, shared_frames>>

MinFontSize == 6
MinLeading == 8

\* (variant for C6: the relative sizes taken against the article style as it is
\* now, after the loop has rewritten it, instead of the base read before the loop)
ScaledFontLiveRelative(style, s, bf, bl) ==
    LET relative_size    ==
            FDivInt(style.fontSize, style_definitions["article_style"].fontSize)
        relative_leading ==
            FDivInt(style.leading, style_definitions["article_style"].leading)
    IN  [style EXCEPT
           !.fontSize = Max(MinFontSize,
                            FTrunc(FMul(FMulInt(bf, s), relative_size))),
           !.leading  = Max(MinLeading,
                            FTrunc(FMul(FMulInt(bl, s), relative_leading)))]

\* (variant for C25: every style given the scaled base size, its relative size
\* forgotten)
ScaledFontFlat(style, s, bf, bl) ==
    [style EXCEPT
       !.fontSize = Max(MinFontSize, FTrunc(FMulInt(bf, s))),
       !.leading  = Max(MinLeading, FTrunc(FMulInt(bl, s)))]

\* style.fontSize and style.leading of one iteration of the rescale loop
ScaledFont(style, s, bf, bl) ==
    LET relative_size    == FDivInt(style.fontSize, bf)
        relative_leading == FDivInt(style.leading, bl)
    IN  [style EXCEPT
           !.fontSize = Max(MinFontSize,
                            FTrunc(FMul(FMulInt(bf, s), relative_size))),
           !.leading  = Max(MinLeading,
                            FTrunc(FMul(FMulInt(bl, s), relative_leading)))]

\* (variant for C27: a point added to every scaled spacing)
ScaledIntPlusOne(v, s) == FTrunc(FMulInt(v, s)) + 1

\* int(attribute * scale_factor)
ScaledInt(v, s) == FTrunc(FMulInt(v, s))

\* (variant for C7: the first-line indent left unscaled)
ScaledSpacingNoIndent(style, s) ==
    [style EXCEPT !.spaceBefore   = ScaledInt(@, s),
                  !.spaceAfter    = ScaledInt(@, s),
                  !.borderPadding = ScaledInt(@, s)]

\* the spacing attributes of one iteration (hasattr holds for each of them)
ScaledSpacing(style, s) ==
    [style EXCEPT !.spaceBefore     = ScaledInt(@, s),
                  !.spaceAfter      = ScaledInt(@, s),
                  !.firstLineIndent = ScaledInt(@, s),
                  !.borderPadding   = ScaledInt(@, s)]

\* (variant for C4: a solver that measures again after rescaling)
AfterRescaleMeasureAgain == "measure"

\* what follows the rescale loop: the render pass
AfterRescale == "masthead"

\* one iteration of "for style_name, style in style_definitions.items()"
RescaleStyle ==
    /\ pc = "rescale"
    /\ style_idx <= Len(StyleOrderOf(variant))
    /\ style_definitions' =
          [style_definitions EXCEPT ![StyleOrderOf(variant)[style_idx]] =
              ScaledSpacing(ScaledFont(@, scale_factor[1], base_font_size,
                                       base_leading),
                            scale_factor[1])]
    /\ style_idx' = style_idx + 1
    /\ pc' = IF style_idx = Len(StyleOrderOf(variant)) THEN AfterRescale
             ELSE "rescale"
    /\ UNCHANGED <<layout, variant, story_content, target_pages, pos, current_section,
                   size_flowables, num_pages, scale_factor, base_font_size,
                   base_leading, flowables, current_page, canvas_page, footers,
                   pdf_file, use_cache, cache, fetched,
                   run, cache_writes, size_test_pdf, shared_frames>>

\* "The Garden Report"
MastheadText ==
    Str(<<84, 104, 101, 32, 71, 97, 114, 100, 101, 110, 32, 82, 101, 112, 111,
          114, 116>>)
\* date_str, for one day: "Thursday November 05, 2026"
DateText ==
    Str(<<84, 104, 117, 114, 115, 100, 97, 121, 32, 78, 111, 118, 101, 109, 98,
          101, 114, 32, 48, 53, 44, 32, 50, 48, 50, 54>>)

\* (variant for C17: the date line put before the masthead)
SubtitleFirst ==
    <<Paragraph(DateText, "subtitle_style"),
      Paragraph(MastheadText, "masthead_style")>>

\* flowables = [] and the two appends of the masthead and the date line
MastheadBlocks ==
    <<Paragraph(MastheadText, "masthead_style"),
      Paragraph(DateText, "subtitle_style")>>

\* (variant for C15: the section state of the measure pass carried over)
SectionCarriedOver == current_section

\* current_section = None, before the render loop
RenderStartSection == None

\* (variant for C26: a render pass that puts the masthead style back to the
\* size it was created with)
MastheadRestyled ==
    /\ pc = "masthead"
    /\ flowables' = MastheadBlocks
    /\ current_section' = RenderStartSection
    /\ pos' = 1
    /\ pc' = "render"
    /\ style_definitions' =
          [style_definitions EXCEPT !["masthead_style"] =
              InitialStylesOf(variant)["masthead_style"]]
    /\ UNCHANGED <<layout, variant, story_content, target_pages,
                   size_flowables, num_pages, scale_factor, base_font_size,
                   base_leading, style_idx, current_page, canvas_page, footers,
                   pdf_file, use_cache, cache, fetched, run, cache_writes,
                   size_test_pdf, shared_frames>>

\* the masthead and the subtitle (the date line), then current_section = None
Masthead ==
    /\ pc = "masthead"
    /\ flowables' = MastheadBlocks
    /\ current_section' = RenderStartSection
    /\ pos' = 1
    /\ pc' = "render"
    /\ UNCHANGED <<layout, variant, story_content, target_pages, style_definitions,
                   size_flowables, num_pages, scale_factor, base_font_size,
                   base_leading, style_idx, current_page, canvas_page, footers,
                   pdf_file, use_cache, cache, fetched,
                   run, cache_writes, size_test_pdf, shared_frames>>

\* build_newspaper_pdf: one iteration of "for item in story_content"; an
\* exception of the iteration ends the invocation
RenderItem ==
    /\ pc = "render"
    /\ pos <= Len(story_content)
    /\ LET r == RenderClassify(variant, story_content[pos], style_definitions,
                               current_section)
       IN  /\ flowables' = flowables \o r.out
           /\ current_section' = r.section
           /\ pos' = IF r.raised THEN pos ELSE pos + 1
           /\ pc' = IF r.raised THEN "error" ELSE pc
    /\ UNCHANGED <<layout, variant, story_content, target_pages, style_definitions,
                   size_flowables, num_pages, scale_factor, base_font_size,
                   base_leading, style_idx, current_page, canvas_page, footers,
                   pdf_file, use_cache, cache, fetched,
                   run, cache_writes, size_test_pdf, shared_frames>>

\* PageCountCanvas.__init__: self._current_page = 1
CanvasFirstPage == 1

\* the spacer, and doc.build(flowables, canvasmaker=PageCountCanvas) up to the
\* first page: the canvas is made
RenderBuild ==
    /\ pc = "render"
    /\ pos > Len(story_content)
    /\ flowables' = WithSpacer(flowables)
    /\ canvas_page' = CanvasFirstPage
    /\ pc' = "build"
    /\ UNCHANGED <<layout, variant, story_content, target_pages, style_definitions,
                   pos, current_section, size_flowables, num_pages,
                   scale_factor, base_font_size, base_leading, style_idx,
                   current_page, footers, pdf_file, use_cache, cache, fetched,
                   run, cache_writes, size_test_pdf, shared_frames>>

\* the page indicator of footer_text: <<k, T>> for "Page k of T" in
\* daily_newspaper.py, none in daily_readings.py
FooterIndicator(v, k, T) == IF v = "daily_newspaper" THEN <<k, T>> ELSE <<>>

\* handle_pageBegin of a page of the final build: current_page += 1, and the
\* page template's onPage draws the footer
PageBegin ==
    /\ pc = "build"
    /\ current_page < BuildPagesOn(shared_frames, flowables, style_definitions)
    /\ current_page' = current_page + 1
    /\ footers' = Append(footers,
                         FooterIndicator(variant, canvas_page, target_pages))
    /\ pc' = "page"
    /\ UNCHANGED <<layout, variant, story_content, target_pages, style_definitions,
                   pos, current_section, size_flowables, num_pages,
                   scale_factor, base_font_size, base_leading, style_idx,
                   flowables, canvas_page, pdf_file, use_cache, cache, fetched,
                   run, cache_writes, size_test_pdf, shared_frames>>

\* (variant for C18: a canvas that does not count its pages)
ShowPageUncounted(k) == k

\* PageCountCanvas.showPage: self._current_page += 1
ShowPage(k) == k + 1

\* handle_pageEnd of that page: canv.showPage()
PageEnd ==
    /\ pc = "page"
    /\ canvas_page' = ShowPage(canvas_page)
    /\ pc' = "build"
    /\ UNCHANGED <<layout, variant, story_content, target_pages, style_definitions,
                   pos, current_section, size_flowables, num_pages,
                   scale_factor, base_font_size, base_leading, style_idx,
                   flowables, current_page, footers, pdf_file, use_cache,
                   cache, fetched,
                   run, cache_writes, size_test_pdf, shared_frames>>

\* the end of doc.build: PageCountCanvas.save writes the document
Save ==
    /\ pc = "build"
    /\ current_page = BuildPagesOn(shared_frames, flowables, style_definitions)
    /\ shared_frames' = FramesAfter(shared_frames, flowables, style_definitions)
    /\ pdf_file' = "complete"
    /\ pc' = "done"
    /\ UNCHANGED <<layout, variant, story_content, target_pages, style_definitions,
                   pos, current_section, size_flowables, num_pages,
                   scale_factor, base_font_size, base_leading, style_idx,
                   flowables, current_page, canvas_page, footers, use_cache,
                   cache, fetched, run, cache_writes, size_test_pdf>>

\* the runs of main followed within the day
MaxRuns == 2

\* main is started again on the same day, after a run has ended (with the
\* document written or with an exception): a new process with its own
\* arguments and a new pdf_filename (the timestamp has moved on); the files
\* on disk are as the runs before left them
MainAgain ==
    /\ pc \in {"done", "error"}
    /\ run < MaxRuns
    /\ run' = run + 1
    /\ pc' = "main"
    /\ use_cache' \in BOOLEAN
    /\ story_content' = <<>>
    /\ style_definitions' = InitialStylesOf(variant)
    /\ pos' = 1
    /\ current_section' = None
    /\ size_flowables' = <<>>
    /\ num_pages' = 0
    /\ scale_factor' = <<>>
    /\ base_font_size' = 0
    /\ base_leading' = 0
    /\ style_idx' = 0
    /\ flowables' = <<>>
    /\ current_page' = 0
    /\ canvas_page' = 0
    /\ footers' = <<>>
    /\ pdf_file' = DocTemplateFile
    /\ fetched' = FALSE
    /\ shared_frames' = FreshFrames
    /\ UNCHANGED <<layout, variant, target_pages, cache, cache_writes,
                   size_test_pdf>>

\* build_newspaper_pdf
Next ==
    \/ MeasureItem
    \/ MeasureBuild
    \/ SolveSkip
    \/ SolveRescale
    \/ RescaleStyle
    \/ Masthead
    \/ RenderItem
    \/ RenderBuild
    \/ PageBegin
    \/ PageEnd
    \/ Save

\* main, which ends in build_newspaper_pdf
NextMain ==
    \/ MainLoadCache
    \/ MainFetch
    \/ MainAgain
    \/ Next

Spec == Init /\ [][Next]_vars

\* the same invocation on the contents of SolverPool
SpecSolver == InitSolver /\ [][Next]_vars

\* build_newspaper_pdf of daily_newspaper.py
SpecNewspaper == InitNewspaper /\ [][Next]_vars

\* the same invocation on the lines of RulesPool
SpecRules == InitRules /\ [][Next]_vars

\* the same invocation on ScaleContents, with up to MaxScaleTarget pages asked
SpecScale == InitScale /\ [][Next]_vars

\* main of daily_readings.py
SpecMain == InitMain /\ [][NextMain]_vars

(***************************************************************************)
(* The claims.                                                             *)
(***************************************************************************)
Range(q) == {q[j] : j \in 1..Len(q)}

Rescaled == scale_factor # <<>>
AfterSolve == pc \in {"masthead", "render", "done"}

\* C1: for every content sequence (the empty one and those of blank items
\* included) calculate_content_size returns a page count >= 1, so the divisor
\* of target_pages / num_pages is never 0.
C1_MeasuredAtLeastOnePage == pc # "measure" => num_pages >= 1

\* a non-empty content of blank items only has been measured: the spacer alone
C1_Witness ==
    /\ pc = "solve"
    /\ story_content # <<>>
    /\ size_flowables = <<Spacer>>
    /\ num_pages = 1

\* C2: whenever the solver rescales (measured # target, both >= 1) the scale
\* factor it applies is within [0.7, 1.3].
C2_ScaleWithinBounds ==
    Rescaled =>
        /\ ~FLess(scale_factor[1], ScaleMin)
        /\ ~FLess(ScaleMax, scale_factor[1])

\* the rescale loop runs with a factor strictly inside the bounds (3/4)
C2_Witness ==
    /\ pc = "rescale"
    /\ FLess(ScaleMin, scale_factor[1])
    /\ FLess(scale_factor[1], ScaleMax)

\* C3: if the measured page count equals target_pages no rescale is performed:
\* the render pass starts, and runs, with every attribute of every style as it
\* was when the registry was created.
C3_NoRescaleWhenOnTarget ==
    (AfterSolve /\ num_pages = target_pages) =>
        /\ style_definitions = InitialStyles
        /\ ~Rescaled
        /\ style_idx = 0

\* the render pass is running after a measurement that met the target
C3_Witness ==
    /\ pc = "render"
    /\ num_pages = target_pages
    /\ Len(flowables) > 2

PcRank(p) ==
    CASE p = "measure"  -> 1
      [] p = "solve"    -> 2
      [] p = "rescale"  -> 3
      [] p = "masthead" -> 4
      [] p = "render"   -> 5
      [] p = "build"    -> 6
      [] p = "page"     -> 6
      [] p = "done"     -> 7
      [] p = "error"    -> 8

\* C4: in one invocation the measure pass runs once and finishes before any
\* style is mutated; the rescale pass runs at most once (each style rewritten
\* at most once, in registry order) and finishes before the render pass creates
\* its first block; nothing is measured and no scale is computed after it.
C4_PassOrder ==
    [][ /\ PcRank(pc') >= PcRank(pc)
        /\ (size_flowables' # size_flowables \/ num_pages' # num_pages) =>
              /\ pc = "measure"
              /\ num_pages = 0
              /\ style_definitions = InitialStyles
              /\ ~Rescaled
        /\ scale_factor' # scale_factor =>
              /\ pc = "solve"
              /\ ~Rescaled
              /\ num_pages >= 1
        /\ style_definitions' # style_definitions =>
              /\ pc = "rescale"
              /\ num_pages >= 1
              /\ flowables = <<>>
              /\ style_idx' = style_idx + 1
              /\ \A n \in StyleNames :
                    n # StyleOrder[style_idx] =>
                        style_definitions'[n] = style_definitions[n]
        /\ pc = "rescale" => pc' \in {"rescale", "masthead"}
        /\ flowables' # flowables =>
              /\ pc \in {"masthead", "render"}
              /\ style_definitions' = style_definitions
      ]_vars

\* an invocation that measured, rescaled and rendered content blocks
C4_Witness ==
    /\ pc = "done"
    /\ Rescaled
    /\ style_idx = Len(StyleOrder) + 1
    /\ Len(flowables) > 3

\* C5: the measure pass and the render pass classify identically, so the
\* rendered block sequence is the measured one with the masthead and the
\* subtitle in front.
C5_SameClassification ==
    pc = "done" => SubSeq(flowables, 3, Len(flowables)) = size_flowables

\* the sizes the rescale pass must give a style, from the registry as created
ExpectedFontSize(n) ==
    LET B_f == InitialStyles["article_style"].fontSize
    IN  Max(6, FTrunc(FMul(FMulInt(B_f, scale_factor[1]),
                           FDivInt(InitialStyles[n].fontSize, B_f))))
ExpectedLeading(n) ==
    LET B_l == InitialStyles["article_style"].leading
    IN  Max(8, FTrunc(FMul(FMulInt(B_l, scale_factor[1]),
                           FDivInt(InitialStyles[n].leading, B_l))))

\* the styles the rescale loop has visited
Visited == {StyleOrder[j] : j \in 1..(style_idx - 1)}

\* C6: after the rescale pass with factor s every style, wherever it stands in
\* the iteration order, has font size max(6, int(B_f * s * (old size / B_f)))
\* and leading max(8, int(B_l * s * (old leading / B_l))), B_f and B_l being the
\* article style's size and leading before the pass.  (Looked at for each style
\* when the loop has just rewritten it, and for all of them when the pass ends.)
C6_FontScaledFromOriginalBase ==
    Rescaled =>
        \A n \in Visited :
            (pc = "masthead" \/ n = StyleOrder[style_idx - 1]) =>
                /\ style_definitions[n].fontSize = ExpectedFontSize(n)
                /\ style_definitions[n].leading = ExpectedLeading(n)

\* the pass is over with factor 0.7; the small article style, visited after
\* the article style was rewritten, went from 10 to 6
C6_Witness ==
    /\ pc = "masthead"
    /\ Rescaled
    /\ scale_factor[1] = ScaleMin
    /\ style_definitions["article_style"].fontSize = 8
    /\ style_definitions["article_style_small"].fontSize = 6

SpacingOf(st) ==
    <<st.spaceBefore, st.spaceAfter, st.firstLineIndent, st.borderPadding>>

\* C7: after the rescale pass with factor s each of space-before, space-after,
\* first-line indent and border padding of every style is int(old value * s):
\* none is left unscaled, none is scaled twice.
C7_SpacingScaledOnce ==
    Rescaled =>
        \A n \in StyleNames :
            SpacingOf(style_definitions[n]) =
                IF n \in Visited
                THEN [j \in 1..4 |->
                        FTrunc(FMulInt(SpacingOf(InitialStyles[n])[j],
                                       scale_factor[1]))]
                ELSE SpacingOf(InitialStyles[n])

\* the whole registry rescaled by 0.7: header padding 5 -> 3, article indent 15 -> 10
C7_Witness ==
    /\ pc = "done"
    /\ Rescaled
    /\ style_definitions["section_header_style"].borderPadding = 3
    /\ style_definitions["article_style"].firstLineIndent = 10
    /\ style_definitions["attribution_style"].spaceAfter = 14

Blocks == Range(size_flowables) \cup Range(flowables)

\* C8: the un-hinted line "CITATION DU JOUR" is always given the quote-section
\* style, in either pass (no item of the content pool carries that text with a hint).
C8_CitationIsQuoteSection ==
    \A f \in Blocks :
        (f.kind = "Paragraph" /\ f.text = CITATION_DU_JOUR) =>
            f.style = "quote_section_style"

IsPlainLine(item) == ~item.tuple /\ ~IsBlank(item.text)
IsHeaderLine(item) ==
    IsPlainLine(item) /\ IsUpper(item.text) /\ Contains(item.text, HYPHEN)

\* "CITATION DU JOUR" stands before position p with no section header after it
InCitation(p) ==
    \E q \in 1..(p - 1) :
        /\ story_content[q] = Plain(CITATION_DU_JOUR)
        /\ \A h \in (q + 1)..(p - 1) : ~IsHeaderLine(story_content[h])

\* the blocks a step of the running pass has added
Added ==
    IF pc = "measure"
    THEN SubSeq(size_flowables', Len(size_flowables) + 1, Len(size_flowables'))
    ELSE SubSeq(flowables', Len(flowables) + 1, Len(flowables'))

\* C9: once the un-hinted line "CITATION DU JOUR" has been seen and no section
\* header after it, an un-hinted non-blank line (not itself a header) starting
\* with an opening-quote glyph becomes a quote-style block, one starting with a
\* dash an attribution-style block, and any other is dropped.
C9_QuoteSectionLines ==
    [][ ( /\ pc \in {"measure", "render"}
          /\ pos <= Len(story_content)
          /\ pos' = pos + 1
          /\ IsPlainLine(story_content[pos])
          /\ ~IsHeaderLine(story_content[pos])
          /\ story_content[pos] # Plain(CITATION_DU_JOUR)
          /\ InCitation(pos) )
        => LET text == story_content[pos].text
           IN  Added = IF \E g \in QuoteGlyphs : StartsWith(text, g)
                       THEN <<Paragraph(text, "quote_style")>>
                       ELSE IF \E g \in DashGlyphs : StartsWith(text, g)
                       THEN <<Paragraph(text, "attribution_style")>>
                       ELSE <<>>
      ]_vars

\* C10: every non-blank item whose text holds a character above U+1F300 is
\* given the emoji style, whatever other rule its text matches.
C10_EmojiAlwaysEmojiStyle ==
    \A f \in Blocks :
        (f.kind = "Paragraph" /\ HasEmoji(f.text)) => f.style = "emoji_style"

\* the item the running pass is about to process
AtItem == pc \in {"measure", "render"} /\ pos <= Len(story_content)

\* a text of white space only (or of no character)
OnlyWhiteSpace(t) ==
    t.body = 0 /\ \A j \in 1..Len(t.chars) : IsSpaceChar(t.chars[j])

\* C11: a (style-hint, text) item with blank text produces no block; with any
\* other text it produces exactly one block, in the registry style its hint
\* names, whatever the text looks like and whatever the section state is.
C11_HintedItemHonoured ==
    [][ (AtItem /\ story_content[pos].tuple) =>
          LET item == story_content[pos]
          IN  IF OnlyWhiteSpace(item.text) THEN Added = <<>>
              ELSE /\ Len(Added) = 1
                   /\ Added[1].text = item.text
                   /\ item.style_name \in DOMAIN style_definitions =>
                         Added[1].style = item.style_name
      ]_vars

\* under a section header, the hinted numbered line has been rendered in the
\* small article style its hint names
C11_Witness ==
    /\ pc = "render"
    /\ pos = 3
    /\ current_section # None
    /\ story_content[2] = RosaryPrayer
    /\ flowables[Len(flowables)] =
          Paragraph(AnnunciationText, "article_style_small")

\* C12: a (style-hint, text) item with non-blank text whose hint is no key of
\* the registry produces exactly one block in the default article style, in
\* the measure pass and in the render pass, and the invocation does not fail.
C12_UnknownHintFallsBack ==
    [][ (/\ AtItem
         /\ story_content[pos].tuple
         /\ ~OnlyWhiteSpace(story_content[pos].text)
         /\ story_content[pos].style_name \notin DOMAIN style_definitions) =>
          /\ Added = <<Paragraph(story_content[pos].text, "article_style")>>
          /\ pc' # "error"
      ]_vars

\* the document is written, the item with the unknown hint measured and
\* rendered as an article paragraph
C12_Witness ==
    /\ pc = "done"
    /\ pdf_file = "complete"
    /\ UnknownHint \in Range(story_content)
    /\ Paragraph(UnknownHint.text, "article_style") \in Range(size_flowables)
    /\ Paragraph(UnknownHint.text, "article_style") \in Range(flowables)

\* the blocks of numbered list items
IsNumbered(t) == IsDigit(BeforeFirstDot(Strip(t)))
NumberedBlocks(fl) ==
    {f \in Range(fl) : f.kind = "Paragraph" /\ IsNumbered(f.text)}

\* C13: in the rendered document all numbered list items of the content,
\* hinted or plain, have one and the same style, the one the measure pass
\* gave them.
C13_NumberedItemsOneStyle ==
    pc = "done" =>
        \A f \in NumberedBlocks(flowables) :
            \A g \in NumberedBlocks(flowables) \cup NumberedBlocks(size_flowables) :
                f.style = g.style

\* C14: for the content ["DAILY WEATHER - TODAY", "72(degree)F - Clear sky"] and
\* target_pages = 1 the measure pass reports 1 page, no style attribute is
\* changed, and the render pass emits one page whose blocks after the
\* masthead and the subtitle are a section header and an article paragraph.
C14_WeatherExample ==
    (story_content = <<WeatherHeader, ClearSky>> /\ target_pages = 1) =>
        /\ pc # "error"
        /\ pc # "measure" => num_pages = 1
        /\ style_definitions = InitialStyles
        /\ ~Rescaled
        /\ pc = "done" =>
              /\ current_page = 1
              /\ flowables =
                    <<Paragraph(MastheadText, "masthead_style"),
                      Paragraph(DateText, "subtitle_style"),
                      Paragraph(WeatherHeader.text, "section_header_style"),
                      Paragraph(ClearSky.text, "article_style"),
                      Spacer>>

\* the example has been built
C14_Witness ==
    /\ pc = "done"
    /\ story_content = <<WeatherHeader, ClearSky>>
    /\ target_pages = 1
    /\ pdf_file = "complete"
    /\ Len(footers) = 1

\* the text of the last section header among the first p items, else none
LastHeader(p) ==
    LET H == {j \in 1..p : IsHeaderLine(story_content[j])}
    IN  IF H = {} THEN None
        ELSE <<story_content[CHOOSE j \in H : \A h \in H : h <= j].text>>

\* C15: the section state is none at the start of the measure pass and again
\* at the start of the render pass, and in a pass, after the items before pos,
\* it is the text of the last of them that is an un-hinted section-header
\* line: blank items, hinted items and other lines leave it as it is, and the
\* state the measure pass ended with does not reach the render pass.
C15_SectionState ==
    pc \in {"measure", "render"} => current_section = LastHeader(pos - 1)

\* the render pass has kept the header of item 1 over a hinted item, after a
\* measure pass that ended under that header
C15_Witness ==
    /\ pc = "render"
    /\ pos = 3
    /\ IsHeaderLine(story_content[1])
    /\ story_content[2].tuple
    /\ current_section = <<story_content[1].text>>

\* |a - b| <= 2^-40 point
Tolerance == FRound(<<1>>, -40, FALSE)
FNear(a, b) ==
    ~FLess(Tolerance, IF FLess(a, b) THEN FSub(b, a) ELSE FSub(a, b))

\* 3 * column_width + 2 * gutter + 2 * margin, as Python evaluates it
WidthSum ==
    FAdd(FAdd(FMulInt(3, layout.column_width), FMulInt(2, layout.gutter)),
         FMulInt(2, layout.margin))
\* where frame j ends, and what separates it from the next
FrameEnd(j) == FAdd(layout.content_frames[j].x, layout.content_frames[j].width)
FrameGap(j) == FSub(layout.content_frames[j + 1].x, FrameEnd(j))
FramesAsComputed ==
    \A j \in 1..NumColumns :
        /\ layout.content_frames[j].width = layout.column_width
        /\ layout.content_frames[j].x =
              FAdd(layout.margin,
                   FMulInt(j - 1, FAdd(layout.column_width, layout.gutter)))

\* C16: 3*column_width + 2*gutter + 2*margin == page_width, the three frames
\* have width column_width and left edges margin + i*(column_width + gutter),
\* the third frame ends within rounding (2^-40 point) of page_width - margin
\* and neighbouring frames are separated by a gutter within rounding.
C16_GeometryWithinRounding ==
    /\ WidthSum = layout.page_width
    /\ FramesAsComputed
    /\ FNear(FrameEnd(NumColumns), FSub(layout.page_width, layout.margin))
    /\ \A j \in 1..(NumColumns - 1) : FNear(FrameGap(j), layout.gutter)

\* a document of several pages has been laid out on frames whose third one
\* ends one unit in the last place short of page_width - margin
C16_Witness ==
    /\ pc = "done"
    /\ current_page >= 2
    /\ FLess(FrameEnd(NumColumns), FSub(layout.page_width, layout.margin))

\* C16 as stated: the same with the third frame ending exactly at
\* page_width - margin and the frames separated by exactly one gutter.
C16_GeometryExact ==
    /\ WidthSum = layout.page_width
    /\ FramesAsComputed
    /\ FrameEnd(NumColumns) = FSub(layout.page_width, layout.margin)
    /\ \A j \in 1..(NumColumns - 1) : FrameGap(j) = layout.gutter

\* the texts of the content blocks of the render pass, and of the items
BlockTexts ==
    LET body == SubSeq(flowables, 3, Len(flowables))
        idx  == {j \in 1..Len(body) : body[j].kind = "Paragraph"}
    IN  [j \in 1..Cardinality(idx) |->
           body[CHOOSE h \in idx : Cardinality({g \in idx : g <= h}) = j].text]
ItemTexts == [j \in 1..Len(story_content) |-> story_content[j].text]

\* a is b with some elements left out
RECURSIVE IsSubsequence(_, _)
IsSubsequence(a, b) ==
    IF a = <<>> THEN TRUE
    ELSE IF b = <<>> THEN FALSE
    ELSE IF Head(a) = Head(b) THEN IsSubsequence(Tail(a), Tail(b))
    ELSE IsSubsequence(a, Tail(b))

\* C17: for every content (the empty one included) the block sequence of the
\* render pass begins with the masthead block, the subtitle block follows
\* it, and every content block comes after them, in the order of the items.
C17_MastheadFirst ==
    /\ pc \in {"main", "fetch", "measure", "solve", "rescale", "masthead"} =>
          flowables = <<>>
    /\ pc \in {"render", "build", "page", "done"} =>
          /\ Len(flowables) >= 2
          /\ flowables[1] = Paragraph(MastheadText, "masthead_style")
          /\ flowables[2] = Paragraph(DateText, "subtitle_style")
          /\ IsSubsequence(BlockTexts, ItemTexts)

\* two different content blocks stand, in the order of their items, behind
\* the masthead and the subtitle of a finished document
C17_Witness ==
    /\ pc = "done"
    /\ Len(BlockTexts) = 2
    /\ BlockTexts[1] # BlockTexts[2]
    /\ flowables[1].style = "masthead_style"
    /\ flowables[2].style = "subtitle_style"

\* C18: in daily_newspaper.py the footer is drawn once on every page of the
\* rendered document, and on the k-th page, k counted from 1 and by 1, it
\* reads "Page k of T" with T the target_pages of the call, whatever the
\* number of pages the document has.
C18_FooterPageOfTarget ==
    variant = "daily_newspaper" =>
        /\ Len(footers) = current_page
        /\ \A k \in 1..Len(footers) : footers[k] = <<k, target_pages>>
        /\ pc = "page" => canvas_page = current_page
        /\ pc \in {"build", "done"} => canvas_page = current_page + 1

\* a document of more pages than target_pages: its last footer reads
\* "Page 3 of 1" or the like
C18_Witness ==
    /\ variant = "daily_newspaper"
    /\ pc = "done"
    /\ current_page > target_pages
    /\ footers[current_page] = <<current_page, target_pages>>

\* C19: if the measure pass or the render pass fails, the invocation ends in
\* the error and the file pdf_filename is not there: it is written only by an
\* invocation that reaches its end.
C19_NoOutputOnFailure ==
    /\ pc = "error" => pdf_file = "absent"
    /\ pdf_file # "absent" => (pc = "done" /\ pdf_file = "complete")

\* the render pass of daily_newspaper.py has failed on a numbered line, after
\* a measure pass that went through
C19_Witness ==
    /\ pc = "error"
    /\ variant = "daily_newspaper"
    /\ num_pages >= 1
    /\ Len(flowables) >= 2
    /\ IsNumbered(story_content[pos].text)

\* main finds a same-day entry in the cache it was told to use
CacheHit == use_cache /\ cache.kind = "entry" /\ cache.day = Today

\* C20: load_from_cache returns the stored content only for an entry that is
\* there, can be read and carries today's date, and None (no exception) in
\* every other case; and when main, run with use_cache, gets a same-day entry,
\* it fetches nothing and does not rewrite the cache.
C20_CacheSameDayOnly ==
    [][ /\ pc = "main" =>
              /\ pc' # "error"
              /\ IF CacheHit
                 THEN pc' = "measure" /\ story_content' = cache.content
                 ELSE pc' = "fetch"
        /\ (cache' # cache \/ (fetched' /\ ~fetched)) =>
              (pc = "fetch" /\ cache'.day = Today)
        /\ pc = "fetch" => fetched'
      ]_vars

\* a run on today's cached content has written its document: nothing was
\* fetched and the entry is as it was
C20_Witness ==
    /\ pc = "done"
    /\ use_cache
    /\ ~fetched
    /\ story_content # <<>>
    /\ cache = CacheEntry(Today, story_content)

\* C21: over the runs of main within one calendar day, with or without
\* use_cache, save_to_cache writes the cache entry at most once.
C21_CacheWrittenOncePerDay == cache_writes <= 1

\* C22: one invocation of build_newspaper_pdf writes one file, the one named by
\* pdf_filename: neither the measure pass nor the render pass creates or
\* overwrites another file.
C22_OnlyPdfWritten ==
    [][pc \notin {"main", "fetch", "done", "error"} =>
          /\ size_test_pdf' = size_test_pdf
          /\ cache' = cache
          /\ pdf_file' # pdf_file => (pc = "build" /\ pc' = "done")]_vars

C24_RuleOrder ==
    [][ (pc = "render" /\ AtItem /\ IsPlainLine(story_content[pos])) =>
          LET text == story_content[pos].text
              one(style) == Added = <<Paragraph(text, style)>>
          IN  /\ pc' # "error"
              /\ IF IsUpper(text) /\ Contains(text, HYPHEN)
                 THEN /\ one("section_header_style") \/ one("quote_section_style")
                      /\ current_section' = <<text>>
                 ELSE /\ current_section' = current_section
                      /\ IF current_section = <<CITATION_DU_JOUR>>
                         THEN \/ one("quote_style")
                              \/ one("attribution_style")
                              \/ Added = <<>>
                         ELSE IF IsNumbered(text)
                         THEN one("article_style")
                         ELSE one("article_style") \/ one("emoji_style")
              /\ text = NumberedHeaderText => one("section_header_style")
      ]_vars

\* "1. A-B" has been rendered as a section header and is the section state,
\* after a numbered line that was not one
C24_Witness ==
    /\ pc = "done"
    /\ current_section = <<NumberedHeaderText>>
    /\ \E j \in 2..Len(flowables) :
          /\ flowables[j] = Paragraph(NumberedHeaderText, "section_header_style")
          /\ flowables[j - 1] = Paragraph(AnnunciationText, "article_style")

\* the rescale loop has run to its end
RescaleDone == Rescaled /\ pc \notin {"solve", "rescale"}

HeaderStyles == {"masthead_style", "section_header_style", "quote_section_style"}

\* C25: after a rescale pass, whatever the scale factor, a style whose font
\* size was at least that of another still has a font size at least that of
\* the other, and the masthead, section header and quote section styles are
\* still strictly larger than the article style.
C25_HierarchyPreserved ==
    RescaleDone =>
        /\ \A a, b \in StyleNames :
              InitialStyles[a].fontSize >= InitialStyles[b].fontSize =>
                  style_definitions[a].fontSize >= style_definitions[b].fontSize
        /\ \A h \in HeaderStyles :
              style_definitions[h].fontSize
                  > style_definitions["article_style"].fontSize

\* the registry has been shrunk by the smallest factor, 0.7: the article style
\* is at 8 points and the section header at 11
C25_Witness ==
    /\ pc = "done"
    /\ RescaleDone
    /\ scale_factor = <<ScaleMin>>
    /\ style_definitions["article_style"].fontSize = 8
    /\ style_definitions["section_header_style"].fontSize = 11

\* the attributes the rescale pass rewrites
ScaledAttributes(st) ==
    <<st.fontSize, st.leading, st.spaceBefore, st.spaceAfter,
      st.firstLineIndent, st.borderPadding>>

\* C27: the solver moves in the direction of the error: when the measured
\* count was above the target no font size, leading, spaceBefore, spaceAfter,
\* firstLineIndent or borderPadding is larger after the rescale than before,
\* and when it was below the target none is smaller.
C27_RescaleDirection ==
    RescaleDone =>
        \A n \in StyleNames : \A k \in 1..6 :
            LET before == ScaledAttributes(InitialStyles[n])[k]
                after  == ScaledAttributes(style_definitions[n])[k]
            IN  /\ num_pages > target_pages => after <= before
                /\ num_pages < target_pages => after >= before

\* four pages were measured for a target of five: the registry has grown by
\* 1.25, the article style from 12/14 to 15/17
C27_Witness ==
    /\ pc = "done"
    /\ RescaleDone
    /\ num_pages = 4
    /\ target_pages = 5
    /\ style_definitions["article_style"].fontSize = 15
    /\ style_definitions["article_style"].leading = 17
    /\ style_definitions["article_style"].firstLineIndent
          > InitialStyles["article_style"].firstLineIndent

\* C26: the style registry is mutated only by the rescale pass of the solver:
\* a step of the measure pass, of the render pass or of the final build leaves
\* every attribute of every style as it was, a step of the rescale pass
\* rewrites the one style it is at, and no step adds or removes a style.
C26_RegistryFrame ==
    [][ /\ DOMAIN style_definitions' = DOMAIN style_definitions
        /\ pc \in {"measure", "solve", "masthead", "render", "build", "page"} =>
              style_definitions' = style_definitions
        /\ pc = "rescale" =>
              \A n \in DOMAIN style_definitions :
                  style_definitions'[n] # style_definitions[n] =>
                      n = StyleOrderOf(variant)[style_idx]
      ]_vars

\* the document is written from a registry the rescale pass has changed, and
\* the blocks of both passes carry the styles of that one registry
C26_Witness ==
    /\ pc = "done"
    /\ RescaleDone
    /\ style_definitions # InitialStylesOf(variant)
    /\ DOMAIN style_definitions = StyleNames
    /\ Len(size_flowables) >= 2
    /\ Len(flowables) >= 4

\* C28: every style name a pass looks up by a fixed key is defined in the
\* registry of its program, so no content made of plain lines makes the
\* measure pass or the render pass fail on a missing style.
C28_NoMissingStyle ==
    (\A j \in 1..Len(story_content) : ~story_content[j].tuple) => pc # "error"

\* what the section state can be: none, or an upper-case text with a hyphen
\* that is not the title of the quote section
SectionStateOk(section) ==
    \/ section = None
    \/ /\ IsUpper(section[1])
       /\ Contains(section[1], HYPHEN)
       /\ section # <<CITATION_DU_JOUR>>

QuoteStyles == {"quote_section_style", "quote_style", "attribution_style"}

\* C29: the section state is always none or an all-upper-case text with a
\* hyphen, so it is never "CITATION DU JOUR"; no un-hinted line is given the
\* quote-section, quote or attribution style, and no non-blank un-hinted line
\* is dropped, in either pass.
C29_QuoteSectionUnreachable ==
    [][ /\ SectionStateOk(current_section)
        /\ SectionStateOk(current_section')
        /\ (AtItem /\ ~story_content[pos].tuple) =>
              /\ \A k \in 1..Len(Added) : Added[k].style \notin QuoteStyles
              /\ ~IsBlank(story_content[pos].text) =>
                    (Len(Added) = 1 /\ Added[1].text = story_content[pos].text)
      ]_vars

\* after the line "CITATION DU JOUR", itself rendered as an article line, a
\* quote has been rendered as an ordinary article line, the section state
\* still none
C29_Witness ==
    /\ pc = "done"
    /\ story_content = <<CitationLine, LaVieEstBelle>>
    /\ current_section = None
    /\ flowables[3] = Paragraph(CITATION_DU_JOUR, "article_style")
    /\ flowables[4].style = "article_style"

\* C30: when the measure pass reports exactly target_pages, so that nothing is
\* rescaled, the document rendered from the same content and registry, with
\* the masthead and the date line added, has exactly target_pages pages.
C30_RenderMatchesMeasure ==
    (pc = "done" /\ ~Rescaled /\ num_pages = target_pages) =>
        current_page = target_pages

====
